---- MODULE Spec2Model ----
(***************************************************************************)
(* Model of the orbe-agent-avatar animation components.                    *)
(*                                                                         *)
(* Numbers.  The program computes in IEEE doubles.  The model uses fixed   *)
(* point: the integer n stands for the real n / SCALE.  Products are       *)
(* rescaled with MulS, quotients with DivS, both rounding to nearest.      *)
(* Angles are radians in the same unit.  Math.sin / Math.cos are the       *)
(* range-reduced Taylor polynomials Sin / Cos, exact to about one unit.    *)
(* Math.random() is an input: each call site draws from RandVals.          *)
(***************************************************************************)
EXTENDS Integers, Sequences, FiniteSets, TLC

VARIABLES
    \* ---- useAnimationState hook + OrbeElement component ----
    currentState,     \* hook state: the committed mood
    previousState,    \* hook state: the mood before the last change, or "null"
    isTransitioning,  \* hook state
    closureState,     \* currentState as captured by the animate closure at mount
    isVisible,        \* component state
    turnOnPending,    \* turn-on tweens created whose onStart has not fired yet
    metaNodes,        \* metaNodesRef.current: sequence of positions
    metaVel,          \* metaNodesVelocityRef.current: sequence of velocities
    timeRef,          \* timeRef.current
    mousePos,         \* mousePos.current
    pointerActive,    \* a mousemove has been handled since the mount
    changes,          \* number of committed mood changes so far
    steps,            \* number of handler invocations so far
    lastFrame,        \* what the most recent animate() call used and produced
    \* ---- OrbeHDRIFixed animateFn clock ----
    perfNow,          \* performance.now()
    frameTimeRef,     \* frameTimeRef.current
    hdriTimeRef,      \* timeRef.current of OrbeHDRIFixed
    hdriFrames,       \* number of animateFn() calls so far
    lastIncrement,    \* timeIncrement of the most recent animateFn() call
    \* ---- one call of a function, with its input and result ----
    unit,
    \* ---- OrbeElementPhysics: the mood, the body list and the physics world ----
    physics,
    \* ---- TextureSequenceManager: sequences, cache, loads in flight ----
    tsm,
    \* ---- useAnimationState on a clock: the hook, its timer and the time ----
    anim,
    \* ---- OrbeElement: isolation, visible flag, pending timers and tweens ----
    fx,
    \* ---- OrbeHDRI: the visible flags of the four shapes and the hide tweens ----
    shapes,
    \* ---- OrbeHDRI: the scene effect, its pending loads and its frame loops ----
    scene,
    \* ---- OrbeHDRIFixed: the pointer state, the ref and what animateFn closes over ----
    pointer,
    \* ---- AIAgentInterface: its own state and the OrbeHDRIFixed it controls ----
    agent

vars == << currentState, previousState, isTransitioning, closureState, isVisible,
           turnOnPending, metaNodes, metaVel, timeRef, mousePos, pointerActive,
           changes, steps, lastFrame, perfNow, frameTimeRef, hdriTimeRef, hdriFrames,
           lastIncrement, unit, physics, tsm, anim, fx,
           shapes,
           scene,
           pointer,
           agent >>

orbeVars == << currentState, previousState, isTransitioning, closureState, isVisible,
               turnOnPending, metaNodes, metaVel, timeRef, mousePos, pointerActive,
               changes, steps, lastFrame >>

hdriVars == << perfNow, frameTimeRef, hdriTimeRef, hdriFrames, lastIncrement >>

physVars == << physics >>

tsmVars == << tsm >>

extVars == << anim, fx, shapes, scene, pointer, agent >>

-----------------------------------------------------------------------------
(* Fixed-point arithmetic *)

\* One real unit.  Every value stays below 2^31 in every product formed.
SCALE == 100 * 100

\* IEEE NaN (the result of 0 / 0): a marker outside the range of every number
NaN == 0 - 999999999

Abs(a) == IF a < 0 THEN -a ELSE a

Sgn(a) == IF a < 0 THEN -1 ELSE IF a > 0 THEN 1 ELSE 0

\* a / b rounded to the nearest integer (b # 0)
DivR(a, b) ==
    Sgn(a) * Sgn(b) * (Abs(a) \div Abs(b)
                       + (IF 2 * (Abs(a) % Abs(b)) >= Abs(b) THEN 1 ELSE 0))

\* product of two fixed-point numbers
MulS(a, b) == DivR(a * b, SCALE)

\* quotient of two fixed-point numbers (b # 0)
DivS(a, b) == DivR(a * SCALE, b)

RECURSIVE SqrtSearch(_, _, _)
SqrtSearch(n, lo, hi) ==
    IF lo >= hi THEN lo
    ELSE LET mid == (lo + hi + 1) \div 2
         IN  IF mid * mid <= n THEN SqrtSearch(n, mid, hi)
             ELSE SqrtSearch(n, lo, mid - 1)

\* floor of the integer square root, n in 0 .. 2^31 - 1
ISqrt(n) == SqrtSearch(n, 0, 46340)

\* Math.sqrt of a fixed-point number
SqrtS(a) == ISqrt(a * SCALE)

PI == 31416

HALF_PI == PI \div 2

TWO_PI == 2 * PI

\* sin on [0, pi/2]: x - x^3/3! + x^5/5! - x^7/7! + x^9/9!, in Horner form
SinTerm(x2, inner, k) == SCALE - DivR(MulS(x2, inner), k)

SinSeries(x, x2) ==
    MulS(x, SinTerm(x2, SinTerm(x2, SinTerm(x2, SinTerm(x2, SCALE, 72), 42), 20), 6))

AtMostOne(s) == IF s > SCALE THEN SCALE ELSE s

SinQ(x) == AtMostOne(SinSeries(x, MulS(x, x)))

\* sin on [0, pi]
SinH(x) == IF x > HALF_PI THEN SinQ(PI - x) ELSE SinQ(x)

\* sin on [0, 2 pi)
SinTurn(r) == IF r > PI THEN -SinH(r - PI) ELSE SinH(r)

\* Math.sin
Sin(x) == SinTurn(x % TWO_PI)

\* Math.cos
Cos(x) == Sin(x + HALF_PI)

(* THREE.Vector3 *)

Vec(x, y, z) == << x, y, z >>

ZeroVec == << 0, 0, 0 >>

VAdd(a, b) == << a[1] + b[1], a[2] + b[2], a[3] + b[3] >>

VSub(a, b) == << a[1] - b[1], a[2] - b[2], a[3] - b[3] >>

VNegate(a) == << -a[1], -a[2], -a[3] >>

VScale(a, s) == << MulS(a[1], s), MulS(a[2], s), MulS(a[3], s) >>

VDot(a, b) == DivR(a[1] * b[1] + a[2] * b[2] + a[3] * b[3], SCALE)

VLengthSq(a) == a[1] * a[1] + a[2] * a[2] + a[3] * a[3]

VLength(a) == ISqrt(VLengthSq(a))

\* Vector3.divideScalar(length() || 1): the zero vector stays zero
VDivideScalar(a, l) ==
    IF l = 0 THEN a ELSE << DivS(a[1], l), DivS(a[2], l), DivS(a[3], l) >>

VNormalize(a) == VDivideScalar(a, VLength(a))

VCross(a, b) == << DivR(a[2] * b[3] - a[3] * b[2], SCALE),
                   DivR(a[3] * b[1] - a[1] * b[3], SCALE),
                   DivR(a[1] * b[2] - a[2] * b[1], SCALE) >>

-----------------------------------------------------------------------------
(* Module constants of OrbeElement.tsx *)

States == { "idle", "listening", "thinking", "talking" }

\* STATE_MODULATIONS: the fields the animation reads
STATE_MODULATIONS(s) ==
    CASE s = "idle" ->
           [ pulseFrequency |-> 4000, turbulence |-> 800, rotationSpeed |-> 10,
             bodyCount |-> 15, strength |-> 5000, subtract |-> 100000 ]
      [] s = "listening" ->
           [ pulseFrequency |-> 10000, turbulence |-> 1500, rotationSpeed |-> 20,
             bodyCount |-> 18, strength |-> 5500, subtract |-> 90000 ]
      [] s = "thinking" ->
           [ pulseFrequency |-> 7000, turbulence |-> 1200, rotationSpeed |-> 25,
             bodyCount |-> 20, strength |-> 5200, subtract |-> 95000 ]
      [] s = "talking" ->
           [ pulseFrequency |-> 15000, turbulence |-> 2000, rotationSpeed |-> 30,
             bodyCount |-> 22, strength |-> 5800, subtract |-> 85000 ]

\* Math.random() results: the least value and the greatest below 1
RandVals == { 0, SCALE - 1 }

\* the draws of the x, y and z call sites of a handler: all least or all
\* greatest; the nodes of one invocation share the three draws
Rand3 == { << r, r, r >> : r \in RandVals }

\* (Math.random() - 0.5) * k
Jitter(r, k) == MulS(r - SCALE \div 2, k)

-----------------------------------------------------------------------------
(* initializeMetaNodes *)

\* golden angle Math.PI * (3 - Math.sqrt(5))
GoldenAngle == MulS(PI, 3 * SCALE - SqrtS(5 * SCALE))

baseRadius == 3300

initialSpeed == 30

\* i / (count - 1): 0 / 0 is NaN; i < count, so no other division by zero occurs
SphereFraction(i, count) ==
    IF count - 1 = 0 THEN NaN ELSE DivR(i * SCALE, count - 1)

\* x, yPos, z of a node at height y, ring radius `radius` and angle theta
SpherePoint(y, radius, theta) ==
    << MulS(MulS(Cos(theta), radius), baseRadius),
       MulS(y, baseRadius),
       MulS(MulS(Sin(theta), radius), baseRadius) >>

SphereRing(y, theta) == SpherePoint(y, SqrtS(SCALE - MulS(y, y)), theta)

SphereAt(f, i) ==
    IF f = NaN THEN << NaN, NaN, NaN >>
    ELSE SphereRing(SCALE - 2 * f, GoldenAngle * i)

\* position of satellite i (0-based) of count
SatellitePosition(i, count) == SphereAt(SphereFraction(i, count), i)

\* vx, vy, vz at a given angle
VelocityAt(angle) ==
    << MulS(Cos(angle), initialSpeed),
       MulS(Sin(angle), initialSpeed),
       MulS(Cos(angle + HALF_PI), initialSpeed) >>

\* velocity of satellite i (0-based) of count
SatelliteVelocity(i, count) == VelocityAt(MulS(DivR(i * SCALE, count), TWO_PI))

\* the loop "for (let i = 0; i < count; i++)": no iteration when count <= 0
Satellites(count, F(_, _)) == [ k \in 1 .. count |-> F(k - 1, count) ]

\* a reset that pushes no central node
initializeMetaNodesNoCore(count) ==
    [ nodes |-> Satellites(count, SatellitePosition),
      vels  |-> Satellites(count, SatelliteVelocity),
      threw |-> FALSE ]

\* initializeMetaNodes(count): the central node first, then the loop's nodes.
\* No branch of the function throws.
initializeMetaNodes(count) ==
    [ nodes  |-> << ZeroVec >> \o Satellites(count, SatellitePosition),
      vels   |-> << ZeroVec >> \o Satellites(count, SatelliteVelocity),
      threw  |-> FALSE ]

\* "if (i === 0)": the central node is the first of the list (1-based here)
IsCore(k) == k = 1

-----------------------------------------------------------------------------
(* updateMetaNodes *)

centerAttraction == 40

mouseInfluence == 5

bounceRegion == 3800

orbitStrength == 20

\* velocity damping factor 0.96
damping == 9600

\* mouse3D: the pointer as the step consumes it, mousePos * 0.5 with no clamp
Mouse3D(mouse) == << MulS(mouse[1], SCALE \div 2), MulS(mouse[2], SCALE \div 2), 0 >>

\* a wobble whose three components are sines
CoreWobbleSines(t) ==
    << MulS(Sin(MulS(t, 5000)), 200),
       MulS(Sin(MulS(t, 4000)), 200),
       MulS(Sin(MulS(t, 3000)), 200) >>

\* the central node's wobble, a function of timeRef alone
CoreWobble(t) ==
    << MulS(Sin(MulS(t, 5000)), 200),
       MulS(Cos(MulS(t, 4000)), 200),
       MulS(Sin(MulS(t, 3000)), 200) >>

\* state-specific turbulence added to the velocity
Turbulence(r, mod) ==
    << MulS(Jitter(r[1], 20), mod.turbulence),
       MulS(Jitter(r[2], 20), mod.turbulence),
       MulS(Jitter(r[3], 20), mod.turbulence) >>

\* pull toward the origin, stronger when further away
CenterForce(node) ==
    VScale(VNormalize(VNegate(node)), MulS(centerAttraction, VLength(node) * 2))

\* attraction to the pointer, only within 0.5 of it
MousePull(toMouse, mouseDistance) ==
    IF mouseDistance < SCALE \div 2
    THEN VScale(VDivideScalar(toMouse, mouseDistance),
                DivS(mouseInfluence,
                     IF mouseDistance > SCALE \div 10 THEN mouseDistance
                     ELSE SCALE \div 10))
    ELSE ZeroVec

ToMouse(toMouse) == MousePull(toMouse, VLength(toMouse))

MouseForce(node, mouse3D) == ToMouse(VSub(mouse3D, node))

\* velocity.sub(normal.multiplyScalar(2 * dot))
ReflectBy(velocity, normal, dot) == VSub(velocity, VScale(normal, 2 * dot))

Reflect(velocity, normal) == ReflectBy(velocity, normal, VDot(velocity, normal))

\* a boundary that reflects nothing and moves nothing back
BounceOpen(node, velocity, mod) == [ pos |-> node, vel |-> velocity ]

\* "if (distance > bounceRegion)": reflect the velocity about the outward
\* normal, put the node on the sphere of radius bounceRegion * 0.9 and rescale
\* the velocity by 1.2 * turbulence
Bounce(node, velocity, mod) ==
    IF VLength(node) > bounceRegion
    THEN [ pos |-> VScale(VNormalize(node), MulS(bounceRegion, 9000)),
           vel |-> VScale(Reflect(velocity, VNormalize(node)),
                          MulS(12000, mod.turbulence)) ]
    ELSE [ pos |-> node, vel |-> velocity ]

\* orbital force: normalize(cross(node, up)) * orbitStrength
OrbitForce(node) ==
    VScale(VNormalize(VCross(node, << 0, SCALE, 0 >>)), orbitStrength)

\* listenDir
ListenDir(i, listenForce) ==
    << MulS(Sin(i * 8000), listenForce),
       MulS(Cos(i * 8000), listenForce),
       MulS(Sin(i * 8000 + HALF_PI), listenForce) >>

\* perpX, perpY, perpZ
PerpForce(angle, perpRadius) ==
    << MulS(Cos(angle), perpRadius),
       MulS(Sin(angle), perpRadius),
       MulS(Cos(MulS(angle, 15000)), perpRadius) >>

\* "switch (currentState)" of updateMetaNodes; i is the 0-based node index and
\* n the length of the node list
StateForce(state, mod, node, i, n, t) ==
    CASE state = "idle" ->
           << MulS(-node[3], 5), 0, MulS(node[1], 5) >>
      [] state = "talking" ->
           VScale(VNormalize(node),
                  MulS(Sin(MulS(t, mod.pulseFrequency) * 2), 20))
      [] state = "listening" ->
           ListenDir(i, MulS(Sin(MulS(t, 15000) + i * 5000), 10))
      [] state = "thinking" ->
           PerpForce(i * DivR(TWO_PI, n) + MulS(t, 2000), MulS(8, mod.turbulence))

\* after the bounce b: orbital force, then the state-specific force
Orbit(b, mod, state, i, n, t) ==
    [ pos |-> b.pos,
      vel |-> VAdd(VAdd(b.vel, OrbitForce(b.pos)),
                   StateForce(state, mod, b.pos, i, n, t)) ]

\* with the velocity after the three forces: position += velocity, damping,
\* bounce, and the rest
Integrate(node, velocity, mod, state, i, n, t) ==
    Orbit(Bounce(VAdd(node, velocity), VScale(velocity, damping), mod),
          mod, state, i, n, t)

\* the velocity after the first three statements of an iteration: turbulence,
\* center attraction, pointer attraction
ThreeForces(node, velocity, mod, mouse3D, r) ==
    VAdd(VAdd(VAdd(velocity, Turbulence(r, mod)), CenterForce(node)),
         MouseForce(node, mouse3D))

\* an iteration that adds the orbital and the state-specific force before it
\* moves the node: all five forces, then position += velocity, damping, bounce
UpdateNodeForcesFirst(node, velocity, mod, state, i, n, t, mouse3D, r) ==
    Bounce(VAdd(node,
                VAdd(VAdd(ThreeForces(node, velocity, mod, mouse3D, r), OrbitForce(node)),
                     StateForce(state, mod, node, i, n, t))),
           VScale(VAdd(VAdd(ThreeForces(node, velocity, mod, mouse3D, r), OrbitForce(node)),
                       StateForce(state, mod, node, i, n, t)),
                  damping),
           mod)

\* one iteration of the loop for a node that is not the central one, in the
\* order of the statements: turbulence, center attraction, pointer
\* attraction, position += velocity, damping, bounce, orbital force,
\* state-specific force
UpdateNode(node, velocity, mod, state, i, n, t, mouse3D, r) ==
    Integrate(node, ThreeForces(node, velocity, mod, mouse3D, r), mod, state, i, n, t)

\* the positions and the velocities the loop leaves, as the two lists
Unzip(step) ==
    [ nodes |-> << >> \o [ k \in 1 .. Len(step) |-> step[k].pos ],
      vels  |-> << >> \o [ k \in 1 .. Len(step) |-> step[k].vel ] ]

\* a loop that also moves the central node by its velocity
updateMetaNodesCoreMoves(nodes, vels, mod, state, t, mouse, r) ==
    Unzip(<< >> \o [ k \in 1 .. Len(nodes) |->
                       IF IsCore(k)
                       THEN [ pos |-> VAdd(CoreWobble(t), vels[k]), vel |-> vels[k] ]
                       ELSE UpdateNode(nodes[k], vels[k], mod, state, k - 1,
                                       Len(nodes), t, Mouse3D(mouse), r) ])

\* updateMetaNodes(modulation), with currentState as the enclosing render saw it
updateMetaNodes(nodes, vels, mod, state, t, mouse, r) ==
    Unzip(<< >> \o [ k \in 1 .. Len(nodes) |->
                       IF IsCore(k)
                       THEN [ pos |-> CoreWobble(t), vel |-> vels[k] ]
                       ELSE UpdateNode(nodes[k], vels[k], mod, state, k - 1,
                                       Len(nodes), t, Mouse3D(mouse), r) ])

-----------------------------------------------------------------------------
(* updateMetaballs of OrbeElement.tsx *)

\* simplex3D: four layered products of sines
simplex3D(x, y, z) ==
      MulS(MulS(MulS(Sin(x), Cos(y)), Sin(z)), 5000)
    + MulS(MulS(MulS(Sin(MulS(x, 21000) + 3000), Cos(MulS(y, 17000) + 2000)),
                Sin(MulS(z, 23000) + 1000)), 3000)
    + MulS(MulS(MulS(Sin(MulS(x, 37000) + 7000), Cos(MulS(y, 43000) + 4000)),
                Sin(MulS(z, 29000) + 5000)), 2000)
    + MulS(MulS(MulS(Sin(MulS(x, 51000) - 4000), Cos(MulS(y, 48000) + 3000)),
                Sin(MulS(z, 52000) - 2000)), 1000)

\* baseStrength after the state-specific adjustment (1.8 to start with)
BaseStrength(state, t) ==
    CASE state = "idle"      -> MulS(18000, 9500)
      [] state = "listening" -> MulS(18000, 10500 + MulS(Sin(MulS(t, 15000)), 700))
      [] state = "thinking"  -> MulS(18000, 10000 + MulS(Sin(MulS(t, 8000)), 400))
      [] state = "talking"   -> MulS(18000, 11000 + MulS(Sin(t * 3), 1000))

\* baseSubtract after the state-specific adjustment (10 to start with)
BaseSubtract(state) ==
    CASE state = "idle"      -> MulS(100000, 10500)
      [] state = "listening" -> MulS(100000, 9500)
      [] state = "thinking"  -> MulS(100000, 10000)
      [] state = "talking"   -> MulS(100000, 9000)

\* the addBall call of node k (1-based) of the forEach
NodeBall(node, k, state, t) ==
    LET ballStrength == IF IsCore(k) THEN MulS(BaseStrength(state, t), 20000)
                        ELSE BaseStrength(state, t)
        ballSubtract == IF IsCore(k) THEN MulS(BaseSubtract(state), 8500)
                        ELSE BaseSubtract(state)
        fluctuation  == MulS(simplex3D(node[1] + MulS(t, 2000),
                                       node[2] + MulS(t, 3000),
                                       node[3] + MulS(t, 1000)), 1500)
    IN  [ op |-> "addBall", from |-> "node", pos |-> node,
          strength |-> MulS(ballStrength,
                            SCALE + MulS(fluctuation, STATE_MODULATIONS(state).turbulence)),
          subtract |-> ballSubtract ]

\* a pointer ball added wherever the pointer is
MouseBallAlways(mouse, state, t) ==
    LET dirToMouse == VNormalize(<< MulS(mouse[1], 2500), MulS(mouse[2], 2500), 0 >>)
    IN  << [ op |-> "addBall", from |-> "pointer", pos |-> VScale(dirToMouse, 1500),
             strength |-> MulS(MulS(BaseStrength(state, t), 5000), 200),
             subtract |-> MulS(BaseSubtract(state), 11500) ] >>

\* the pointer ball, added when the pointer is within 0.8 of the center
MouseBall(mouse, state, t) ==
    IF ISqrt(mouse[1] * mouse[1] + mouse[2] * mouse[2]) < 8000
    THEN LET dirToMouse == VNormalize(<< MulS(mouse[1], 2500), MulS(mouse[2], 2500), 0 >>)
         IN  << [ op |-> "addBall", from |-> "pointer", pos |-> VScale(dirToMouse, 1500),
                  strength |-> MulS(MulS(BaseStrength(state, t), 5000), 200),
                  subtract |-> MulS(BaseSubtract(state), 11500) ] >>
    ELSE << >>

\* a field update that accumulates onto the previous frame's field
updateMetaballsNoReset(nodes, state, t, mouse) ==
    [ k \in 1 .. Len(nodes) |-> NodeBall(nodes[k], k, state, t) ]
    \o MouseBall(mouse, state, t)
    \o << [ op |-> "update" ] >>

\* updateMetaballs(state): the calls made on the MarchingCubes object, in order
updateMetaballs(nodes, state, t, mouse) ==
    << [ op |-> "reset" ] >>
    \o [ k \in 1 .. Len(nodes) |-> NodeBall(nodes[k], k, state, t) ]
    \o MouseBall(mouse, state, t)
    \o << [ op |-> "update" ] >>

\* the addBall calls among a sequence of calls
BallsOf(calls) == { k \in 1 .. Len(calls) : calls[k].op = "addBall" }

-----------------------------------------------------------------------------------------------------------------------------------------------------
(* The OrbeElement component *)

\* handler invocations explored (frames, events and callbacks together)
MaxSteps == 3

\* initializeMetaNodes(12) of the scene effect
sceneNodeCount == 12

\* timeRef.current += 0.01
timeStep == 100

\* containerRef.current.getBoundingClientRect()
ContainerRect == [ left |-> 100, top |-> 50, width |-> 200, height |-> 100 ]

\* mousemove events on window: inside the container and outside it
MouseEvents == { [ clientX |-> 250, clientY |-> 125 ],
                 [ clientX |-> 400, clientY |-> 100 ] }

\* handleMouseMove: client coordinates to normalized device coordinates
NormalizedMouse(ev, rect) ==
    << DivR((ev.clientX - rect.left) * SCALE, rect.width) * 2 - SCALE,
       -(DivR((ev.clientY - rect.top) * SCALE, rect.height) * 2) + SCALE >>

\* the render whose values animate, updateMetaNodes and updateMetaballs close
\* over: the scene effect has the dependency list [], so it is the first one
AnimateState == closureState

\* the nodes to whose velocity the step adds a pointer-attraction term
Attracted(nodes, mouse) ==
    { k \in DOMAIN nodes :
        ~IsCore(k) /\ MouseForce(nodes[k], Mouse3D(mouse)) # ZeroVec }

\* the nodes closer than 0.5 to the pointer's projected point
NearPointer(nodes, mouse) ==
    { k \in DOMAIN nodes :
        ~IsCore(k) /\ VLength(VSub(Mouse3D(mouse), nodes[k])) < SCALE \div 2 }

\* what a frame leaves, given the result of its updateMetaNodes
FrameAt(upd, t1, mouse, state, nchanges, attracted, near, active) ==
    [ nodes |-> upd.nodes, vels |-> upd.vels, time |-> t1,
      frame |-> [ ran        |-> TRUE,
                  attracted  |-> attracted,
                  near       |-> near,
                  active     |-> active,
                  modulation |-> state,
                  force      |-> state,
                  field      |-> state,
                  pointer    |-> mouse,
                  changes    |-> nchanges,
                  calls      |-> updateMetaballs(upd.nodes, state, t1, mouse) ] ]

\* animate(): one animation frame
AnimateFrame(nodes, vels, t, mouse, state, r, nchanges, active) ==
    FrameAt(updateMetaNodes(nodes, vels, STATE_MODULATIONS(state), state,
                            t + timeStep, mouse, r),
            t + timeStep, mouse, state, nchanges, Attracted(nodes, mouse),
            NearPointer(nodes, mouse), active)

\* velocity.x += (Math.random() - 0.5) * k, for every velocity of the list
Impulse(vels, r, k) ==
    [ i \in 1 .. Len(vels) |->
        VAdd(vels[i], << Jitter(r[1], k), Jitter(r[2], k), Jitter(r[3], k) >>) ]

NoFrame == [ ran |-> FALSE ]

\* the variables of the other components, at rest
HdriInit ==
    /\ perfNow = 0
    /\ frameTimeRef = 0
    /\ hdriTimeRef = 0
    /\ hdriFrames = 0
    /\ lastIncrement = 0

UnitInit == unit = [ fn |-> "none" ]

\* the scene effect up to the creation of animate: initializeMetaNodes(12)
OrbeInit ==
    /\ currentState \in States
    /\ previousState = "null"
    /\ isTransitioning = FALSE
    /\ closureState = currentState
    /\ isVisible = FALSE
    /\ turnOnPending = 0
    /\ metaNodes = initializeMetaNodes(sceneNodeCount).nodes
    /\ metaVel = initializeMetaNodes(sceneNodeCount).vels
    /\ timeRef = 0
    /\ mousePos = << 0, 0 >>
    /\ pointerActive = FALSE
    /\ changes = 0
    /\ steps = 0
    /\ lastFrame = NoFrame

\* OrbeElementPhysics before RAPIER.init() has resolved: no world, no body
PhysicsInit ==
    physics = [ ready |-> FALSE, currentState |-> "idle", bodies |-> << >>,
                world |-> 0, transitions |-> 0 ]

\* no setTimeout pending; also "never" for a time of day
NoTimer == 0 - 1

\* new TextureSequenceManager()
TsmInit ==
    tsm = [ registered |-> {}, sequences |-> [ s \in States |-> << >> ],
            textureCache |-> {}, loads |-> << >>, lastGet |-> [ called |-> FALSE ] ]

\* useAnimationState('idle') at time 0: no change yet, no timer
AnimInit ==
    anim = [ currentState |-> "idle", previousState |-> "null",
             isTransitioning |-> FALSE, timer |-> NoTimer, since |-> NoTimer,
             now |-> 0 ]

\* the delay of the setTimeout that restores the isolation
isolationDelay == 300

\* metaballs.isolation during a mood transition
transitionIsolation == 12000

\* OrbeElement right after its mount effects: the scene effect has set the
\* isolation to 1.6, the state effect to 1.2 with a timer for 'idle', and the
\* visibility effect (isVisible is false) has created the two turn-off tweens
FxInit ==
    fx = [ isVisible |-> FALSE, mood |-> "idle", visible |-> TRUE,
           isolation |-> transitionIsolation,
           timers |-> << [ kind |-> "mood", left |-> isolationDelay, mood |-> "idle",
                           value |-> 0 ] >>,
           tweens |-> << [ kind |-> "off", started |-> FALSE, elapsed |-> 0,
                           start |-> 0 ],
                         [ kind |-> "iso", started |-> FALSE, elapsed |-> 0,
                           start |-> 0 ] >>,
           dirty |-> FALSE, toggles |-> 0, moodChanges |-> 0 ]

\* OrbeHDRI with its environment loaded and the orb turned on: the callback of
\* setupEnvironment has made the shape of the mood visible and the others not
ShapesInit ==
    shapes = [ currentState |-> "idle", previousState |-> "idle",
               visible |-> [ s \in States |-> s = "idle" ],
               tweens |-> << >>, moodChanges |-> 0 ]

\* frameId.current === null
NoLoop == 0

\* OrbeHDRI right after its mount: the scene effect has run once, with
\* environmentLoaded = false in its closure, and its load is pending
SceneInit ==
    scene = [ mounted |-> TRUE, currentEnvironment |-> "studio", effect |-> 1,
              environmentLoaded |-> FALSE,
              loads |-> { [ effect |-> 1, environmentLoaded |-> FALSE ] },
              resolved |-> {}, loops |-> {}, frameId |-> NoLoop,
              envChanges |-> 0, lastFrame |-> [ ran |-> FALSE ] ]

\* OrbeHDRIFixed once its first environment has loaded: the pointer has not
\* entered, and animateFn was created by the scene effect of the first render
PointerInit ==
    pointer = [ isMouseInContainer |-> FALSE, closureInContainer |-> FALSE,
                mousePositionRef |-> << 0, 0 >>, loading |-> FALSE,
                envChanges |-> 0, lastFrame |-> [ ran |-> FALSE ] ]

\* AIAgentInterface and its OrbeHDRIFixed after the first render, before the
\* mount effects of the interface: useState('idle'), useState(true) in the
\* interface, useState(false) for isVisible in the orb
AgentInit ==
    agent = [ mounted |-> FALSE, currentState |-> "idle", isVisible |-> TRUE,
              orbe |-> [ currentState |-> "idle", isVisible |-> FALSE,
                         environmentLoaded |-> FALSE ],
              toggles |-> 0, moodChanges |-> 0 ]

Init ==
    /\ OrbeInit /\ HdriInit /\ UnitInit /\ PhysicsInit /\ TsmInit /\ AnimInit
    /\ FxInit /\ ShapesInit /\ SceneInit /\ PointerInit /\ AgentInit

\* animate(), called by the scene effect and then by requestAnimationFrame
Animate ==
    /\ steps < MaxSteps
    /\ \E r \in Rand3 :
         \E f \in { AnimateFrame(metaNodes, metaVel, timeRef, mousePos, AnimateState,
                                 r, changes, pointerActive) } :
             /\ metaNodes' = f.nodes
             /\ metaVel' = f.vels
             /\ timeRef' = f.time
             /\ lastFrame' = f.frame
    /\ steps' = steps + 1
    /\ UNCHANGED << currentState, previousState, isTransitioning, closureState,
                    isVisible, turnOnPending, mousePos, changes >>
    /\ UNCHANGED << pointerActive, hdriVars, unit, physVars, tsmVars, extVars >>

\* handleMouseMove
HandleMouseMove ==
    /\ steps < MaxSteps
    /\ \E ev \in MouseEvents : mousePos' = NormalizedMouse(ev, ContainerRect)
    /\ pointerActive' = TRUE
    /\ steps' = steps + 1
    /\ UNCHANGED << currentState, previousState, isTransitioning, closureState,
                    isVisible, turnOnPending, metaNodes, metaVel, timeRef, changes,
                    lastFrame >>
    /\ UNCHANGED << hdriVars, unit, physVars, tsmVars, extVars >>

\* a setAnimationState that does not compare with the current mood
setAnimationStateAlways(hook, state) ==
    [ currentState |-> state, previousState |-> hook.currentState,
      isTransitioning |-> TRUE ]

\* setAnimationState(state) of useAnimationState, on the hook's three states
setAnimationState(hook, state) ==
    IF state # hook.currentState
    THEN [ currentState |-> state, previousState |-> hook.currentState,
           isTransitioning |-> TRUE ]
    ELSE hook

\* getState() of the handle; the handle is rebuilt on every render, so it
\* returns the currentState of the latest render
getState(hook) == hook.currentState

\* the state of the hook in the component
Hook ==
    [ currentState |-> currentState, previousState |-> previousState,
      isTransitioning |-> isTransitioning ]

\* changeState(s): setAnimationState, then the effect on [currentState], which
\* adds an impulse to every velocity and leaves the node list as it is
ChangeState ==
    /\ steps < MaxSteps
    /\ \E s \in States \ { currentState } : \E h \in { setAnimationState(Hook, s) } :
         /\ previousState' = h.previousState
         /\ currentState' = h.currentState
         /\ isTransitioning' = h.isTransitioning
    /\ \E r \in Rand3 : metaVel' = Impulse(metaVel, r, 800)
    /\ changes' = changes + 1
    /\ steps' = steps + 1
    /\ UNCHANGED << closureState, isVisible, turnOnPending, metaNodes, timeRef,
                    mousePos, lastFrame >>
    /\ UNCHANGED << pointerActive, hdriVars, unit, physVars, tsmVars, extVars >>

\* toggleVisibility(), then the effect on [isVisible]: turning on creates the
\* scale tween whose onStart adds the turn-on impulse
ToggleVisibility ==
    /\ steps < MaxSteps
    /\ isVisible' = ~isVisible
    /\ turnOnPending' = IF isVisible THEN turnOnPending ELSE turnOnPending + 1
    /\ steps' = steps + 1
    /\ UNCHANGED << currentState, previousState, isTransitioning, closureState,
                    metaNodes, metaVel, timeRef, mousePos, changes, lastFrame >>
    /\ UNCHANGED << pointerActive, hdriVars, unit, physVars, tsmVars, extVars >>

\* onStart of the turn-on tween
TurnOnStart ==
    /\ steps < MaxSteps
    /\ turnOnPending > 0
    /\ \E r \in Rand3 : metaVel' = Impulse(metaVel, r, 1500)
    /\ turnOnPending' = turnOnPending - 1
    /\ steps' = steps + 1
    /\ UNCHANGED << currentState, previousState, isTransitioning, closureState,
                    isVisible, metaNodes, timeRef, mousePos, changes, lastFrame >>
    /\ UNCHANGED << pointerActive, hdriVars, unit, physVars, tsmVars, extVars >>

Next ==
    \/ Animate
    \/ HandleMouseMove
    \/ ChangeState
    \/ ToggleVisibility
    \/ TurnOnStart

Spec == Init /\ [][Next]_vars

-----------------------------------------------------------------------------
(* The animation clock of OrbeHDRIFixed.tsx *)

\* animateFn calls explored
MaxHdriFrames == 3

\* milliseconds between two animateFn calls: steady frames, slow frames, a
\* backgrounded tab
FrameGaps == { 16, 17, 33, 67, 1000, 5000 }

\* timeIncrement = (deltaTime / 16.67) * 0.01, deltaTime in milliseconds
TimeIncrement(deltaTime) == DivR(deltaTime * 100 * 100, 1667)

\* animateFn(): the clock part of a frame, `gap` ms after the previous one
AnimateFn ==
    /\ hdriFrames < MaxHdriFrames
    /\ \E gap \in FrameGaps :
         LET currentTime == perfNow + gap
             deltaTime   == currentTime - frameTimeRef
         IN  /\ perfNow' = currentTime
             /\ frameTimeRef' = currentTime
             /\ lastIncrement' = TimeIncrement(deltaTime)
             /\ hdriTimeRef' = hdriTimeRef + TimeIncrement(deltaTime)
    /\ hdriFrames' = hdriFrames + 1
    /\ UNCHANGED << orbeVars, unit, physVars, tsmVars, extVars >>

HdriNext == AnimateFn

SpecHDRI == Init /\ [][HdriNext]_vars

-----------------------------------------------------------------------------
(* MetaBody.ts and the updateMetaballs of OrbeElementPhysics.tsx *)

\* new MetaBody({ world, color }): a random position, one rigid body
MetaBody(r, hue) ==
    [ color       |-> hue,
      translation |-> << MulS(r[1], 3 * SCALE) - 15000,
                         MulS(r[2], 3 * SCALE) - 15000 + 3 * SCALE,
                         MulS(r[3], 3 * SCALE) - 15000 >>,
      size        |-> 2000 ]

\* createMetaBodies(count, world): the loop makes no body when count <= 0.
\* No branch of the function throws.
createMetaBodies(count, r, hue) ==
    [ bodies |-> [ k \in 1 .. count |-> MetaBody(r, hue) ],
      threw  |-> FALSE ]

\* MetaBody.update(): the position handed to the metaball system
BodyUpdate(body) == VAdd(VScale(body.translation, 1000), << 5000, 5000, 5000 >>)

\* updateMetaballs() of OrbeElementPhysics: the calls on the MarchingCubes object
physicsUpdateMetaballs(bodies, state) ==
    << [ op |-> "reset" ] >>
    \o [ k \in 1 .. Len(bodies) |->
           [ op |-> "addBall", from |-> "node", pos |-> BodyUpdate(bodies[k]),
             strength |-> STATE_MODULATIONS(state).strength,
             subtract |-> STATE_MODULATIONS(state).subtract ] ]
    \o << [ op |-> "update" ] >>

-----------------------------------------------------------------------------
(* MarchingCubes: extraction of the isosurface *)

\* cells per axis of the grids explored
GridRes == 2

\* the corners of a cube and its twelve edges
Corners == { << i, j, k >> : i \in 0 .. 1, j \in 0 .. 1, k \in 0 .. 1 }

CubeEdges ==
    { e \in SUBSET Corners :
        /\ Cardinality(e) = 2
        /\ \E a \in e : \E b \in e \ { a } :
             Abs(a[1] - b[1]) + Abs(a[2] - b[2]) + Abs(a[3] - b[3]) = 1 }

Cells(res) == { << i, j, k >> : i \in 0 .. res - 1, j \in 0 .. res - 1, k \in 0 .. res - 1 }

\* the cubes of 8 adjacent cells, named by their least corner
Cubes(res) == { << i, j, k >> : i \in 0 .. res - 2, j \in 0 .. res - 2, k \in 0 .. res - 2 }

\* the configuration index: the corners of the cube whose value exceeds isolation
CubeIndex(grid, cube, isolation) ==
    { c \in Corners : grid[VAdd(cube, c)] > isolation }

\* the edge table: the edges the surface crosses
CrossedEdges(inside) ==
    { e \in CubeEdges : (e \cap inside) # {} /\ (e \ inside) # {} }

\* a table whose fully-inside case emits a triangle
TriCountFullCase(inside) ==
    IF inside = {} THEN 0
    ELSE IF CrossedEdges(inside) = {} THEN 1
    ELSE Cardinality(CrossedEdges(inside)) - 2

\* the triangle fan of a case: none when no edge is crossed
TriCount(inside) ==
    IF CrossedEdges(inside) = {} THEN 0 ELSE Cardinality(CrossedEdges(inside)) - 2

RECURSIVE SumTriangles(_, _, _)
SumTriangles(grid, cubes, isolation) ==
    IF cubes = {} THEN 0
    ELSE LET c == CHOOSE x \in cubes : TRUE
         IN  TriCount(CubeIndex(grid, c, isolation))
             + SumTriangles(grid, cubes \ { c }, isolation)

\* extract(grid, isolation): the mesh, as its number of triangles
Extract(grid, res, isolation) ==
    [ triangles |-> SumTriangles(grid, Cubes(res), isolation), threw |-> FALSE ]

-----------------------------------------------------------------------------
(* Single calls of the functions above, on inputs drawn from bounded sets:
   each behaviour makes one call and keeps its result in `unit` *)

\* greatest node count passed to a reset
MaxCount == 4

\* least node count passed to a reset
MinCount == 0 - 2

CountInputs == MinCount .. MaxCount

TimeInputs == { 0, timeStep, 2 * timeStep, 50 * timeStep }

MouseInputs == { << 0, 0 >>, << 5000, -5000 >>, << SCALE, SCALE >>, << 2 * SCALE, 0 >> }

\* node lists handed to updateMetaballs: none, the central node alone, a reset
NodeListInputs == { << >>, << ZeroVec >>, initializeMetaNodes(2).nodes }

BodyListInputs == { << >> } \cup { createMetaBodies(2, r, 0).bodies : r \in Rand3 }

FieldValues == { 0, SCALE, 2 * SCALE }

IsolationInputs == { 5000, 16000 }

\* grids with every cell at one value, and grids with one cell at another
GridInputs ==
    { [ c \in Cells(GridRes) |-> v ] : v \in FieldValues }
    \cup { [ c \in Cells(GridRes) |-> IF c = d THEN w ELSE v ] :
             d \in Cells(GridRes), v \in FieldValues, w \in FieldValues }

CallInitializeMetaNodes ==
    /\ unit.fn = "none"
    /\ \E c \in CountInputs :
         unit' = [ fn |-> "initializeMetaNodes", count |-> c,
                   res |-> initializeMetaNodes(c) ]
    /\ UNCHANGED << orbeVars, hdriVars, physVars, tsmVars, extVars >>

CallCreateMetaBodies ==
    /\ unit.fn = "none"
    /\ \E c \in CountInputs : \E r \in Rand3 : \E hue \in RandVals :
         unit' = [ fn |-> "createMetaBodies", count |-> c,
                   res |-> createMetaBodies(c, r, hue) ]
    /\ UNCHANGED << orbeVars, hdriVars, physVars, tsmVars, extVars >>

\* another mood, to run the same step with another state-specific force
OtherState(s) == IF s = "thinking" THEN "listening" ELSE "thinking"

\* a reset followed by one updateMetaNodes at time t, and the same step with
\* the same modulation but the state-specific force of another mood
CallUpdateMetaNodes ==
    /\ unit.fn = "none"
    /\ \E c \in 2 .. MaxCount : \E t \in TimeInputs : \E s \in States :
       \E m \in MouseInputs : \E r \in Rand3 : \E init \in { initializeMetaNodes(c) } :
             unit' = [ fn |-> "updateMetaNodes", t |-> t, before |-> init.nodes,
                       beforeVels |-> init.vels, state |-> s, mouse |-> m, r |-> r,
                       res |-> updateMetaNodes(init.nodes, init.vels,
                                               STATE_MODULATIONS(s), s, t, m, r),
                       other |-> updateMetaNodes(init.nodes, init.vels,
                                                 STATE_MODULATIONS(s), OtherState(s),
                                                 t, m, r) ]
    /\ UNCHANGED << orbeVars, hdriVars, physVars, tsmVars, extVars >>

CallUpdateMetaballs ==
    /\ unit.fn = "none"
    /\ \E n \in NodeListInputs : \E s \in States : \E t \in TimeInputs :
       \E m \in MouseInputs :
         unit' = [ fn |-> "updateMetaballs", nodes |-> n, mouse |-> m,
                   calls |-> updateMetaballs(n, s, t, m) ]
    /\ UNCHANGED << orbeVars, hdriVars, physVars, tsmVars, extVars >>

CallPhysicsUpdateMetaballs ==
    /\ unit.fn = "none"
    /\ \E b \in BodyListInputs : \E s \in States :
         unit' = [ fn |-> "physicsUpdateMetaballs", nodes |-> b,
                   calls |-> physicsUpdateMetaballs(b, s) ]
    /\ UNCHANGED << orbeVars, hdriVars, physVars, tsmVars, extVars >>

CallExtract ==
    /\ unit.fn = "none"
    /\ \E g \in GridInputs : \E iso \in IsolationInputs :
         unit' = [ fn |-> "extract", grid |-> g, isolation |-> iso,
                   res |-> Extract(g, GridRes, iso) ]
    /\ UNCHANGED << orbeVars, hdriVars, physVars, tsmVars, extVars >>

\* initializeMetaNodes(count) twice: the function draws nothing and takes no seed
CallInitializeMetaNodesTwice ==
    /\ unit.fn = "none"
    /\ \E c \in CountInputs :
         unit' = [ fn |-> "initializeMetaNodesTwice", count |-> c,
                   first |-> initializeMetaNodes(c),
                   second |-> initializeMetaNodes(c) ]
    /\ UNCHANGED << orbeVars, hdriVars, physVars, tsmVars, extVars >>

\* createMetaBodies(count, world) twice: each call draws from Math.random()
\* anew, and the function takes no seed
CallCreateMetaBodiesTwice ==
    /\ unit.fn = "none"
    /\ \E c \in CountInputs : \E r1 \in Rand3 : \E r2 \in Rand3 :
       \E hue1 \in RandVals : \E hue2 \in RandVals :
         unit' = [ fn |-> "createMetaBodiesTwice", count |-> c,
                   first |-> createMetaBodies(c, r1, hue1),
                   second |-> createMetaBodies(c, r2, hue2) ]
    /\ UNCHANGED << orbeVars, hdriVars, physVars, tsmVars, extVars >>

\* the states the hook can be in: no previous mood yet, or a previous mood
\* that differs from the current one
HookInputs ==
    { h \in [ currentState : States, previousState : States \cup { "null" },
              isTransitioning : BOOLEAN ] :
        /\ h.previousState # h.currentState
        /\ h.isTransitioning => h.previousState # "null" }

\* changeState(s) on the handle, then getState() once the change has rendered
CallChangeState ==
    /\ unit.fn = "none"
    /\ \E h \in HookInputs : \E s \in States : \E after \in { setAnimationState(h, s) } :
         unit' = [ fn |-> "changeState", before |-> h, arg |-> s, after |-> after,
                   got |-> getState(after) ]
    /\ UNCHANGED << orbeVars, hdriVars, physVars, tsmVars, extVars >>

UnitNext ==
    \/ CallInitializeMetaNodes
    \/ CallChangeState
    \/ CallInitializeMetaNodesTwice
    \/ CallCreateMetaBodiesTwice
    \/ CallCreateMetaBodies
    \/ CallUpdateMetaNodes
    \/ CallUpdateMetaballs
    \/ CallPhysicsUpdateMetaballs
    \/ CallExtract

\* the component at rest, and calls of its functions
SpecUnit == Init /\ [][UnitNext]_vars

-----------------------------------------------------------------------------
(* OrbeElementPhysics: the body list and the rigid bodies of the world *)

\* mood changes of the physics component explored
MaxTransitions == 3

\* initializeMetaBodies(state): the old bodies' meshes leave the scene and the
\* list is replaced; every new MetaBody creates a rigid body in the world, and
\* no rigid body is removed from it
initializeMetaBodies(state, world, r, hue) ==
    [ bodies |-> createMetaBodies(STATE_MODULATIONS(state).bodyCount, r, hue).bodies,
      world  |-> world + STATE_MODULATIONS(state).bodyCount ]

\* the scene effect once physicsReady is true: initializeMetaBodies(currentState),
\* then new MouseInteractor, which creates the pointer body
PhysicsMount ==
    /\ ~physics.ready
    /\ \E s \in States : \E r \in Rand3 : \E hue \in RandVals :
       \E b \in { initializeMetaBodies(s, 0, r, hue) } :
         physics' = [ ready |-> TRUE, currentState |-> s, bodies |-> b.bodies,
                      world |-> b.world + 1, transitions |-> 0 ]
    /\ UNCHANGED << orbeVars, hdriVars, unit, tsmVars, extVars >>

\* changeState(s), then the effect on [currentState]: initializeMetaBodies(s)
PhysicsChangeState ==
    /\ physics.ready
    /\ physics.transitions < MaxTransitions
    /\ \E s \in States \ { physics.currentState } : \E r \in Rand3 : \E hue \in RandVals :
       \E b \in { initializeMetaBodies(s, physics.world, r, hue) } :
         physics' = [ physics EXCEPT !.currentState = s, !.bodies = b.bodies,
                                     !.world = b.world,
                                     !.transitions = physics.transitions + 1 ]
    /\ UNCHANGED << orbeVars, hdriVars, unit, tsmVars, extVars >>

PhysicsNext ==
    \/ PhysicsMount
    \/ PhysicsChangeState

SpecPhysics == Init /\ [][PhysicsNext]_vars

-----------------------------------------------------------------------------
(* TextureSequenceManager *)

\* loadTextureSequence calls explored
MaxLoads == 2

\* greatest `frames` argument explored
MaxFrames == 2

TsmStates == { "idle", "talking" }

BaseUrls == { "orb_" }

FrameIndexInputs == (0 - MaxFrames - 1) .. (MaxFrames + 1)

\* `${baseUrl}${frameNumber}.${extension}` of frame i (0-based)
Url(baseUrl, i) == << baseUrl, i >>

\* the sequence built by the loop "for (let i = 0; i < frames; i++)"
SequenceOf(baseUrl, frames) == [ k \in 1 .. frames |-> Url(baseUrl, k - 1) ]

\* loadTextureSequence(state, baseUrl, frames): the sequence is registered at
\* once; one load per frame is started and the returned promise is pending
loadTextureSequence(t, state, baseUrl, frames) ==
    [ t EXCEPT !.registered = t.registered \cup { state },
               !.sequences[state] = SequenceOf(baseUrl, frames),
               !.loads = Append(t.loads,
                                [ urls |-> SequenceOf(baseUrl, frames), done |-> {},
                                  failed |-> {}, resolved |-> FALSE,
                                  disposed |-> FALSE ]) ]

\* the onLoad callback of frame k of load l: textureCache.set(url, texture),
\* then resolve() of that frame's promise
onLoad(t, l, k) ==
    [ t EXCEPT !.textureCache = t.textureCache \cup { t.loads[l].urls[k] },
               !.loads[l].done = t.loads[l].done \cup { k } ]

\* frame k of load l fails to load: textureLoader.load was given no onError
\* callback, so nothing runs and the frame's promise stays pending
onError(t, l, k) ==
    [ t EXCEPT !.loads[l].failed = t.loads[l].failed \cup { k } ]

\* the frames of a load whose request has neither loaded nor failed yet
InFlight(load) == (1 .. Len(load.urls)) \ (load.done \cup load.failed)

\* a combinator that is satisfied by the first frame promise that resolves
AnyResolved(load) == load.urls = << >> \/ load.done # {}

\* Promise.all(loadPromises): every frame promise has resolved
AllResolved(load) == load.done = 1 .. Len(load.urls)

\* the JavaScript remainder a % b: the sign of a, NaN when b is 0
JsRem(a, b) == IF b = 0 THEN NaN ELSE Sgn(a) * (Abs(a) % b)

\* sequence[normalizedFrameIndex] and the lookup of its url: an index that is
\* NaN or negative gives undefined, and reading frame.url then throws
FrameLookup(t, sequence, normalizedFrameIndex) ==
    IF normalizedFrameIndex = NaN \/ normalizedFrameIndex < 0
    THEN [ threw |-> TRUE, texture |-> "none" ]
    ELSE [ threw |-> FALSE,
           texture |-> IF sequence[normalizedFrameIndex + 1] \in t.textureCache
                       THEN sequence[normalizedFrameIndex + 1] ELSE "null" ]

\* getTexture(state, frameIndex)
getTexture(t, state, frameIndex) ==
    IF state \notin t.registered THEN [ threw |-> FALSE, texture |-> "null" ]
    ELSE FrameLookup(t, t.sequences[state],
                     JsRem(frameIndex, Len(t.sequences[state])))

\* dispose(): textureCache.clear() and sequences.clear()
dispose(t) ==
    [ t EXCEPT !.registered = {},
               !.sequences = [ s \in States |-> << >> ],
               !.textureCache = {},
               !.loads = [ l \in 1 .. Len(t.loads) |->
                             [ t.loads[l] EXCEPT !.disposed = TRUE ] ] ]

LoadTextureSequence ==
    /\ ~tsm.lastGet.called
    /\ Len(tsm.loads) < MaxLoads
    /\ \E state \in TsmStates : \E baseUrl \in BaseUrls : \E frames \in 0 .. MaxFrames :
         tsm' = loadTextureSequence(tsm, state, baseUrl, frames)
    /\ UNCHANGED << orbeVars, hdriVars, unit, physVars, extVars >>

TextureLoaded ==
    /\ ~tsm.lastGet.called
    /\ \E l \in 1 .. Len(tsm.loads) :
       \E k \in InFlight(tsm.loads[l]) :
         tsm' = onLoad(tsm, l, k)
    /\ UNCHANGED << orbeVars, hdriVars, unit, physVars, extVars >>

\* the promise returned by loadTextureSequence resolves
LoadResolves ==
    /\ ~tsm.lastGet.called
    /\ \E l \in 1 .. Len(tsm.loads) :
         /\ ~tsm.loads[l].resolved
         /\ AllResolved(tsm.loads[l])
         /\ tsm' = [ tsm EXCEPT !.loads[l].resolved = TRUE ]
    /\ UNCHANGED << orbeVars, hdriVars, unit, physVars, extVars >>

Dispose ==
    /\ ~tsm.lastGet.called
    /\ tsm.registered # {}
    /\ tsm' = dispose(tsm)
    /\ UNCHANGED << orbeVars, hdriVars, unit, physVars, extVars >>

\* one getTexture call, the last step of a behaviour
GetTexture ==
    /\ ~tsm.lastGet.called
    /\ \E state \in TsmStates : \E frameIndex \in FrameIndexInputs :
         tsm' = [ tsm EXCEPT !.lastGet =
                    [ called |-> TRUE, state |-> state, frameIndex |-> frameIndex,
                      registered |-> state \in tsm.registered,
                      res |-> getTexture(tsm, state, frameIndex) ] ]
    /\ UNCHANGED << orbeVars, hdriVars, unit, physVars, extVars >>

TsmNext ==
    \/ LoadTextureSequence
    \/ TextureLoaded
    \/ LoadResolves
    \/ Dispose
    \/ GetTexture

SpecTsm == Init /\ [][TsmNext]_vars

\* the request of a frame ends in an error
TextureFails ==
    /\ \E l \in 1 .. Len(tsm.loads) : \E k \in InFlight(tsm.loads[l]) :
         tsm' = onError(tsm, l, k)
    /\ UNCHANGED << orbeVars, hdriVars, unit, physVars, extVars >>

\* the request of frame k of load l ends, one way or the other
FrameOutcome(l, k) ==
    /\ l \in 1 .. Len(tsm.loads)
    /\ k \in InFlight(tsm.loads[l])
    /\ tsm' = onLoad(tsm, l, k) \/ tsm' = onError(tsm, l, k)
    /\ UNCHANGED << orbeVars, hdriVars, unit, physVars, extVars >>

\* the manager with loads that can fail, and without a last getTexture
TsmFairNext ==
    \/ LoadTextureSequence
    \/ TextureLoaded
    \/ TextureFails
    \/ LoadResolves
    \/ Dispose

\* every request ends, and a promise whose reactions are ready runs them
TsmFairness ==
    /\ \A l \in 1 .. MaxLoads : \A k \in 1 .. MaxFrames : WF_vars(FrameOutcome(l, k))
    /\ WF_vars(LoadResolves)

SpecTsmFair == Init /\ [][TsmFairNext]_vars /\ TsmFairness

-----------------------------------------------------------------------------
(* useAnimationState on a clock.  Times are in milliseconds; the clock moves
   in steps of TickMs and stops at MaxClock. *)

MaxClock == 1200

\* the delay of the setTimeout in the transition effect
transitionMs == 500

TickMs == transitionMs \div 5

BaseVars == << orbeVars, hdriVars, unit, physVars, tsmVars >>

\* the three useState cells that setAnimationState writes
AnimHook ==
    [ currentState |-> anim.currentState, previousState |-> anim.previousState,
      isTransitioning |-> anim.isTransitioning ]

\* the effect on [isTransitioning]: it runs only in a render where
\* isTransitioning differs from the previous render; when it runs with TRUE it
\* sets the timer, and its cleanup clears the timer of the previous run
TransitionEffect(wasTransitioning, nowTransitioning, timer) ==
    IF nowTransitioning = wasTransitioning THEN timer
    ELSE IF nowTransitioning THEN transitionMs
    ELSE NoTimer

\* setAnimationState(s) from an event handler, the render and the effect
AnimSetState ==
    \E s \in States : \E h \in { setAnimationState(AnimHook, s) } :
        /\ anim' = [ anim EXCEPT
                       !.currentState = h.currentState,
                       !.previousState = h.previousState,
                       !.isTransitioning = h.isTransitioning,
                       !.timer = TransitionEffect(anim.isTransitioning,
                                                  h.isTransitioning, anim.timer),
                       !.since = IF s # anim.currentState THEN 0 ELSE anim.since ]
        /\ UNCHANGED << BaseVars, fx, shapes, scene, pointer, agent >>

\* the setTimeout callback: setIsTransitioning(false), render, effect
AnimTimeout ==
    /\ anim.timer = 0
    /\ anim' = [ anim EXCEPT
                   !.isTransitioning = FALSE,
                   !.timer = TransitionEffect(TRUE, FALSE, NoTimer) ]
    /\ UNCHANGED << BaseVars, fx, shapes, scene, pointer, agent >>

\* TickMs of time pass; a timer that is due fires before time moves on
AnimTick ==
    /\ anim.now < MaxClock
    /\ anim.timer # 0
    /\ anim' = [ anim EXCEPT
                   !.now = @ + TickMs,
                   !.timer = IF @ = NoTimer THEN NoTimer ELSE @ - TickMs,
                   !.since = IF @ = NoTimer THEN NoTimer ELSE @ + TickMs ]
    /\ UNCHANGED << BaseVars, fx, shapes, scene, pointer, agent >>

AnimNext ==
    \/ AnimSetState
    \/ AnimTimeout
    \/ AnimTick

SpecAnim == Init /\ [][AnimNext]_vars

-----------------------------------------------------------------------------
(* OrbeElement: the timers and tweens of the state effect and of the
   visibility effect.  Times are in milliseconds and move in steps of TickMs;
   isolation values are in units of 1 / SCALE.  The tweens of the scale and of
   the colors write neither the isolation nor the visible flag and are left
   out, except for the callbacks they carry. *)

MaxFxToggles == 2

MaxFxChanges == 2

\* metaballs.isolation at the start of the turn-on tween
bloomIsolation == 10000

\* the target of the turn-off tween of the isolation
implodeIsolation == 30000

\* duration of the turn-off tween of the isolation
implodeDuration == 500

\* duration of the turn-off tween of the scale
offDuration == 600

\* the switch of the timer callback of the state effect
IsolationLevel(state) ==
    CASE state = "idle" -> 16000
      [] state = "listening" -> 15500
      [] state = "thinking" -> 15800
      [] state = "talking" -> 15200

FxTimer(kind, mood, value) ==
    [ kind |-> kind, left |-> isolationDelay, mood |-> mood, value |-> value ]

FxTween(kind) ==
    [ kind |-> kind, started |-> FALSE, elapsed |-> 0, start |-> 0 ]

TweenDuration(tween) ==
    IF tween.kind = "off" THEN offDuration ELSE implodeDuration

\* ease "power2.in" at progress elapsed / duration: the square of the progress
ImplodeValue(tween) ==
    tween.start
      + ((implodeIsolation - tween.start)
           * (tween.elapsed \div TickMs) * (tween.elapsed \div TickMs))
          \div ((implodeDuration \div TickMs) * (implodeDuration \div TickMs))

\* the state effect for a new mood: isolation 1.2 now, the level of the mood
\* (the currentState of this render) after isolationDelay
FxChangeState ==
    /\ fx.moodChanges < MaxFxChanges
    /\ \E s \in States \ { fx.mood } :
        fx' = [ fx EXCEPT
                  !.mood = s,
                  !.isolation = transitionIsolation,
                  !.timers = Append(@, FxTimer("mood", s, 0)),
                  !.moodChanges = @ + 1 ]
    /\ UNCHANGED << BaseVars, anim, shapes, scene, pointer, agent >>

\* toggleVisibility() and the visibility effect of the render that follows
FxToggleVisibility ==
    /\ fx.toggles < MaxFxToggles
    /\ fx' = [ fx EXCEPT
                 !.isVisible = ~fx.isVisible,
                 !.visible = IF fx.isVisible THEN @ ELSE TRUE,
                 !.tweens = IF fx.isVisible
                            THEN @ \o << FxTween("off"), FxTween("iso") >>
                            ELSE Append(@, FxTween("on")),
                 !.toggles = @ + 1 ]
    /\ UNCHANGED << BaseVars, anim, shapes, scene, pointer, agent >>

Unstarted(tweens) == { k \in DOMAIN tweens : ~tweens[k].started }

RemoveAt(seq, k) == SubSeq(seq, 1, k - 1) \o SubSeq(seq, k + 1, Len(seq))

\* the first render of the oldest tween that has not rendered yet: a turn-on
\* tween runs its onStart (the bloom), another tween reads its start value
StartTween(f, k) ==
    IF f.tweens[k].kind = "on"
    THEN [ f EXCEPT !.isolation = bloomIsolation,
                    !.timers = Append(@, FxTimer("bloom", f.mood, f.isolation)),
                    !.tweens = RemoveAt(@, k) ]
    ELSE [ f EXCEPT !.tweens[k].started = TRUE,
                    !.tweens[k].start = f.isolation ]

FxTweenStart ==
    /\ Unstarted(fx.tweens) # {}
    /\ \E k \in Unstarted(fx.tweens) :
        /\ \A j \in Unstarted(fx.tweens) : k <= j
        /\ fx' = StartTween(fx, k)
    /\ UNCHANGED << BaseVars, anim, shapes, scene, pointer, agent >>

\* a setTimeout callback that is due; callbacks run in the order of their timers
FxTimerFires ==
    /\ fx.timers # << >>
    /\ Head(fx.timers).left = 0
    /\ fx' = [ fx EXCEPT
                 !.isolation = IF Head(fx.timers).kind = "mood"
                               THEN IsolationLevel(Head(fx.timers).mood)
                               ELSE Head(fx.timers).value,
                 !.timers = Tail(@) ]
    /\ UNCHANGED << BaseVars, anim, shapes, scene, pointer, agent >>

Finished(tween) == tween.started /\ tween.elapsed >= TweenDuration(tween)

RECURSIVE RenderTweens(_, _, _)
\* one tick of gsap: every tween writes its value, in the order of creation;
\* a turn-off tween of the scale that ends runs its onComplete
RenderTweens(tweens, k, out) ==
    IF k > Len(tweens) THEN out
    ELSE RenderTweens(tweens, k + 1,
           IF tweens[k].kind = "iso"
           THEN [ out EXCEPT !.isolation = ImplodeValue(tweens[k]) ]
           ELSE IF Finished(tweens[k]) THEN [ out EXCEPT !.visible = FALSE ]
           ELSE out)

Running(tween) == ~Finished(tween)

FxGsapRender ==
    /\ fx.dirty
    /\ Unstarted(fx.tweens) = {}
    /\ \E out \in { RenderTweens(fx.tweens, 1,
                      [ isolation |-> fx.isolation, visible |-> fx.visible ]) } :
        fx' = [ fx EXCEPT
                  !.isolation = out.isolation,
                  !.visible = out.visible,
                  !.tweens = SelectSeq(@, Running),
                  !.dirty = FALSE ]
    /\ UNCHANGED << BaseVars, anim, shapes, scene, pointer, agent >>

\* TickMs of time pass, once everything that is due has run
FxTick ==
    /\ fx.timers # << >> \/ fx.tweens # << >>
    /\ ~fx.dirty
    /\ Unstarted(fx.tweens) = {}
    /\ \A k \in DOMAIN fx.timers : fx.timers[k].left > 0
    /\ fx' = [ fx EXCEPT
                 !.timers = [ k \in DOMAIN @ |-> [ @[k] EXCEPT !.left = @ - TickMs ] ],
                 !.tweens = [ k \in DOMAIN @ |-> [ @[k] EXCEPT !.elapsed = @ + TickMs ] ],
                 !.dirty = fx.tweens # << >> ]
    /\ UNCHANGED << BaseVars, anim, shapes, scene, pointer, agent >>

FxNext ==
    \/ FxChangeState
    \/ FxToggleVisibility
    \/ FxTweenStart
    \/ FxTimerFires
    \/ FxGsapRender
    \/ FxTick

SpecFx == Init /\ [][FxNext]_vars

\* nothing is pending: no timer, no tween
FxQuiet == fx.timers = << >> /\ fx.tweens = << >>

-----------------------------------------------------------------------------
(* OrbeHDRI: the shape of each mood and the transition between shapes, with
   the environment loaded and the orb turned on.  Only the visible flags are
   modelled; the scale and rotation tweens do not write them. *)

MaxShapeChanges == 3

\* duration of the tween that shrinks the shape of the previous mood
shrinkDuration == 300

\* transitionToShape(newState): the target becomes visible now, the shape of
\* previousState when its shrink tween completes
transitionToShape(sh, newState) ==
    [ sh EXCEPT !.visible[newState] = TRUE,
                !.tweens = Append(@, [ shape |-> sh.previousState,
                                       left |-> shrinkDuration ]) ]

\* the visibility effect, which also runs on a mood change, with isVisible true
ShowCurrentShape(sh) ==
    [ sh EXCEPT !.visible[sh.currentState] = TRUE ]

\* changeState(s) with s another mood: the state effect, the visibility
\* effect, then setPreviousState(currentState)
ShapesChangeState ==
    /\ shapes.moodChanges < MaxShapeChanges
    /\ \E s \in States \ { shapes.currentState } :
        \E sh \in { [ shapes EXCEPT !.currentState = s, !.moodChanges = @ + 1 ] } :
            shapes' = [ ShowCurrentShape(transitionToShape(sh, s))
                          EXCEPT !.previousState = s ]
    /\ UNCHANGED << BaseVars, anim, fx, scene, pointer, agent >>

\* onComplete of the oldest shrink tween: currentShape.visible = false
ShapesShrinkComplete ==
    /\ shapes.tweens # << >>
    /\ Head(shapes.tweens).left = 0
    /\ shapes' = [ shapes EXCEPT !.visible[Head(shapes.tweens).shape] = FALSE,
                                 !.tweens = Tail(@) ]
    /\ UNCHANGED << BaseVars, anim, fx, scene, pointer, agent >>

\* TickMs of time pass, once every tween that is due has completed
ShapesTick ==
    /\ shapes.tweens # << >>
    /\ \A k \in DOMAIN shapes.tweens : shapes.tweens[k].left > 0
    /\ shapes' = [ shapes EXCEPT
                     !.tweens = [ k \in DOMAIN @ |-> [ @[k] EXCEPT !.left = @ - TickMs ] ] ]
    /\ UNCHANGED << BaseVars, anim, fx, scene, pointer, agent >>

ShapesNext ==
    \/ ShapesChangeState
    \/ ShapesShrinkComplete
    \/ ShapesTick

SpecShapes == Init /\ [][ShapesNext]_vars

-----------------------------------------------------------------------------
(* OrbeHDRI: the scene effect on [currentEnvironment].  Each run of the effect
   has a number; a load and a frame loop carry the number of the run that
   created them and the environmentLoaded that the run's closure captured.
   frameId.current is the request of the loop that ran last, so it is modelled
   as the number of that loop. *)

MaxEnvChanges == 2

HDRIEnvironment == { "studio", "outdoor", "neon" }

\* the cleanup of the scene effect: cancelAnimationFrame(frameId.current)
SceneCleanup(sc) ==
    [ sc EXCEPT !.loops = { l \in @ : l.effect # sc.frameId } ]

\* the scene effect: a new scene, and setupEnvironment(...).then(...) pending
SceneEffect(sc) ==
    [ sc EXCEPT !.effect = @ + 1,
                !.loads = @ \cup { [ effect |-> sc.effect + 1,
                                     environmentLoaded |-> sc.environmentLoaded ] } ]

\* changeEnvironment(env) with another environment: render, cleanup, effect
SceneChangeEnvironment ==
    /\ scene.mounted
    /\ scene.envChanges < MaxEnvChanges
    /\ \E env \in HDRIEnvironment \ { scene.currentEnvironment } :
        scene' = [ SceneEffect(SceneCleanup(scene))
                     EXCEPT !.currentEnvironment = env, !.envChanges = @ + 1 ]
    /\ UNCHANGED << BaseVars, anim, fx, shapes, pointer, agent >>

\* the component unmounts: the cleanup of the last run of the effect
SceneUnmount ==
    /\ scene.mounted
    /\ scene' = [ SceneCleanup(scene) EXCEPT !.mounted = FALSE ]
    /\ UNCHANGED << BaseVars, anim, fx, shapes, pointer, agent >>

\* one call of animate() of the loop l: the shapes are animated when the
\* closure's environmentLoaded is true (the shape refs are set by then), and
\* the next frame is requested
SceneAnimate(sc, l) ==
    [ sc EXCEPT !.frameId = l.effect,
                !.lastFrame = [ ran |-> TRUE, effect |-> l.effect,
                                animated |-> l.environmentLoaded,
                                sceneLoaded |-> sc.effect \in sc.resolved ] ]

\* the promise of a pending load resolves: shapes, setEnvironmentLoaded(true)
\* (which a component that has unmounted ignores), then animate()
SceneLoadResolves ==
    /\ \E load \in scene.loads :
        scene' = SceneAnimate([ scene EXCEPT
                                  !.loads = @ \ { load },
                                  !.resolved = @ \cup { load.effect },
                                  !.environmentLoaded = @ \/ scene.mounted,
                                  !.loops = @ \cup { load } ], load)
    /\ UNCHANGED << BaseVars, anim, fx, shapes, pointer, agent >>

\* requestAnimationFrame calls animate of a running loop
SceneFrame ==
    /\ \E l \in scene.loops : scene' = SceneAnimate(scene, l)
    /\ UNCHANGED << BaseVars, anim, fx, shapes, pointer, agent >>

SceneNext ==
    \/ SceneChangeEnvironment
    \/ SceneUnmount
    \/ SceneLoadResolves
    \/ SceneFrame

SpecScene == Init /\ [][SceneNext]_vars

-----------------------------------------------------------------------------
(* OrbeHDRIFixed: the pointer handlers and the pointer data of a frame.  The
   mood is the initial 'idle' and the shapes are the complex ones, so a frame
   calls updateComplexShapeAnimations with mouseData. *)

MaxPointerEnvChanges == 1

\* mousemove / touchmove events inside the container
PointerEvents == { [ clientX |-> 250, clientY |-> 125 ],
                   [ clientX |-> 150, clientY |-> 75 ] }

NoMouseData == << >>

\* mouseData of animateFn: isMouseInContainer is the one of the render that
\* ran the scene effect, the position is read from the ref
MouseData(inContainer, ref) ==
    IF inContainer THEN ref ELSE NoMouseData

\* handleMouseEnter, handleTouchStart without a move
PointerEnter ==
    /\ ~pointer.isMouseInContainer
    /\ pointer' = [ pointer EXCEPT !.isMouseInContainer = TRUE ]
    /\ UNCHANGED << BaseVars, anim, fx, shapes, scene, agent >>

\* handleMouseLeave, handleTouchEnd
PointerLeave ==
    /\ pointer.isMouseInContainer
    /\ pointer' = [ pointer EXCEPT !.isMouseInContainer = FALSE ]
    /\ UNCHANGED << BaseVars, anim, fx, shapes, scene, agent >>

\* handleMouseMove while the pointer is inside
PointerMove ==
    /\ pointer.isMouseInContainer
    /\ \E ev \in PointerEvents :
        pointer' = [ pointer EXCEPT
                       !.mousePositionRef = NormalizedMouse(ev, ContainerRect) ]
    /\ UNCHANGED << BaseVars, anim, fx, shapes, scene, agent >>

\* changeEnvironment: the scene effect runs again and creates a new animateFn;
\* the running loop is cancelled and frames resume when the load resolves
PointerChangeEnvironment ==
    /\ ~pointer.loading
    /\ pointer.envChanges < MaxPointerEnvChanges
    /\ pointer' = [ pointer EXCEPT
                      !.closureInContainer = pointer.isMouseInContainer,
                      !.loading = TRUE,
                      !.envChanges = @ + 1 ]
    /\ UNCHANGED << BaseVars, anim, fx, shapes, scene, agent >>

PointerLoadResolves ==
    /\ pointer.loading
    /\ pointer' = [ pointer EXCEPT !.loading = FALSE ]
    /\ UNCHANGED << BaseVars, anim, fx, shapes, scene, agent >>

\* one call of animateFn
PointerFrame ==
    /\ ~pointer.loading
    /\ pointer' = [ pointer EXCEPT
                      !.lastFrame = [ ran |-> TRUE,
                                      inside |-> pointer.isMouseInContainer,
                                      latest |-> pointer.mousePositionRef,
                                      mouseData |-> MouseData(pointer.closureInContainer,
                                                              pointer.mousePositionRef) ] ]
    /\ UNCHANGED << BaseVars, anim, fx, shapes, scene, agent >>

PointerNext ==
    \/ PointerEnter
    \/ PointerLeave
    \/ PointerMove
    \/ PointerChangeEnvironment
    \/ PointerLoadResolves
    \/ PointerFrame

SpecPointer == Init /\ [][PointerNext]_vars

-----------------------------------------------------------------------------
(* AIAgentInterface: the Hide/Show button and the mood buttons, and the
   OrbeHDRIFixed behind orbeRef. *)

MaxAgentToggles == 3

MaxAgentChanges == 2

\* isVisible() of the orb's handle
OrbeIsVisible(orbe) == orbe.isVisible

\* the mount effect of the interface: setIsVisible(orbeRef.current.isVisible())
AgentMountEffect(a) ==
    [ a EXCEPT !.mounted = TRUE, !.isVisible = OrbeIsVisible(a.orbe) ]

AgentMount ==
    /\ ~agent.mounted
    /\ agent' = AgentMountEffect(agent)
    /\ UNCHANGED << BaseVars, anim, fx, shapes, scene, pointer >>

\* toggleVisibility of the interface: the orb's toggleVisibility, then
\* setIsVisible(prev => !prev)
AgentToggleVisibility ==
    /\ agent.mounted
    /\ agent.toggles < MaxAgentToggles
    /\ agent' = [ agent EXCEPT !.orbe.isVisible = ~@,
                               !.isVisible = ~@,
                               !.toggles = @ + 1 ]
    /\ UNCHANGED << BaseVars, anim, fx, shapes, scene, pointer >>

\* changeState of the interface: the orb's changeState, then setCurrentState
AgentChangeState ==
    /\ agent.mounted
    /\ agent.moodChanges < MaxAgentChanges
    /\ \E s \in States :
        agent' = [ agent EXCEPT !.orbe.currentState = s,
                                !.currentState = s,
                                !.moodChanges = @ + 1 ]
    /\ UNCHANGED << BaseVars, anim, fx, shapes, scene, pointer >>

\* the orb's setupEnvironment(...).then: setIsVisible(true),
\* setEnvironmentLoaded(true)
AgentEnvironmentLoaded ==
    /\ agent.mounted
    /\ ~agent.orbe.environmentLoaded
    /\ agent' = [ agent EXCEPT !.orbe.isVisible = TRUE,
                               !.orbe.environmentLoaded = TRUE ]
    /\ UNCHANGED << BaseVars, anim, fx, shapes, scene, pointer >>

AgentNext ==
    \/ AgentMount
    \/ AgentToggleVisibility
    \/ AgentChangeState
    \/ AgentEnvironmentLoaded

SpecAgent == Init /\ [][AgentNext]_vars

-----------------------------------------------------------------------------
(* Properties *)

NonCore(nodes) == { k \in DOMAIN nodes : ~IsCore(k) }

CoreNodes(nodes) == { k \in DOMAIN nodes : IsCore(k) }

\* bounceRadius * 1.1
BoundRadius == MulS(bounceRegion, 11000)

\* C1: after every updateMetaNodes, whatever impulses mood changes and turn-on
\* injected before it, every non-core node is within bounceRadius * 1.1 of the
\* origin.
C1_NodesBounded ==
    lastFrame.ran =>
        \A k \in NonCore(metaNodes) : VLength(metaNodes[k]) <= BoundRadius

\* a frame ran after a mood impulse, with no turn-on impulse pending, and it
\* put a node back from the boundary to 0.9 * bounceRegion
C1_Witness ==
    /\ lastFrame.ran
    /\ lastFrame.changes > 0
    /\ turnOnPending = 0
    /\ \E k \in NonCore(metaNodes) :
         Abs(VLength(metaNodes[k]) - MulS(bounceRegion, 9000)) <= 3

C3_RebuiltToTableCount ==
    changes > 0 =>
        /\ Len(metaNodes) = STATE_MODULATIONS(currentState).bodyCount
        /\ CoreNodes(metaNodes) # {}

\* C4: a frame that runs after the latest mood change uses the modulation, the
\* state force and the field parameters of the current mood.
C4_FrameUsesCurrentMood ==
    (lastFrame.ran /\ lastFrame.changes = changes) =>
        /\ lastFrame.modulation = currentState
        /\ lastFrame.force = currentState
        /\ lastFrame.field = currentState

\* the increment of a frame of the maximum frame time, 1/15 s
MaxFrameIncrement == TimeIncrement(1000 \div 15 + 1)

\* C5: no frame advances the animation clock by more than the increment of a
\* frame of the maximum frame time.
C5_IncrementClamped == hdriFrames > 0 => lastIncrement <= MaxFrameIncrement

\* C6 (as stated): the step at t = 0 leaves the core where the reset put it,
\* at the origin.
C6_WobbleOriginAtZero ==
    (unit.fn = "updateMetaNodes" /\ unit.t = 0) =>
        /\ unit.res.nodes[1] = ZeroVec
        /\ unit.res.nodes[1] = unit.before[1]

\* C6: the step at t = 0 puts the core at (0, 0.02, 0): the x and z components
\* of the wobble are zero, the y component is at its amplitude.
C6_WobbleAtZero ==
    (unit.fn = "updateMetaNodes" /\ unit.t = 0) =>
        /\ unit.before[1] = ZeroVec
        /\ unit.res.nodes[1] = << 0, 200, 0 >>

C6_Witness ==
    /\ unit.fn = "updateMetaNodes"
    /\ unit.t = 0
    /\ unit.res.nodes[1] # unit.before[1]

\* C7: a reset or a construction given a negative count fails.
C7_NegativeCountFails ==
    (unit.fn \in { "initializeMetaNodes", "createMetaBodies" } /\ unit.count < 0) =>
        unit.res.threw

\* C8: the pointer a frame consumes has both coordinates in [-1, 1].
C8_PointerInRange ==
    lastFrame.ran =>
        \A c \in 1 .. 2 : lastFrame.pointer[c] >= 0 - SCALE /\ lastFrame.pointer[c] <= SCALE

\* the balls a sequence of calls deposits from the given origin
BallsFrom(calls, from) == { k \in BallsOf(calls) : calls[k].from = from }

AllBelow(grid, isolation) == \A c \in DOMAIN grid : grid[c] < isolation

AllAbove(grid, isolation) == \A c \in DOMAIN grid : grid[c] > isolation

\* C10: extraction from a grid whose cells are all below isolation, or all
\* above it, gives no triangle and no error.
C10_UniformGridEmptyMesh ==
    (unit.fn = "extract"
       /\ (AllBelow(unit.grid, unit.isolation) \/ AllAbove(unit.grid, unit.isolation))) =>
        unit.res.triangles = 0 /\ ~unit.res.threw

C10_Witness ==
    /\ unit.fn = "extract"
    /\ AllAbove(unit.grid, unit.isolation)
    /\ \E c \in DOMAIN unit.grid : \E d \in DOMAIN unit.grid : unit.grid[c] # unit.grid[d]
    /\ unit.res.triangles = 0

\* C11: two resets with the same count give the same list, node by node
\* (positions, velocities, colors).
C11_ResetDeterministic ==
    (unit.fn \in { "initializeMetaNodesTwice", "createMetaBodiesTwice" }) =>
        unit.first = unit.second

\* every coordinate of every vector of the list is a finite number
AllFinite(list) == \A k \in DOMAIN list : \A c \in 1 .. 3 : list[k][c] # NaN

\* C12: for every count >= 1, every position and velocity coordinate that the
\* reset produces is finite.
C12_ResetFinite ==
    (unit.fn = "initializeMetaNodes" /\ unit.count >= 1) =>
        AllFinite(unit.res.nodes) /\ AllFinite(unit.res.vels)

\* C13: the world holds one rigid body per body of the current list, plus the
\* pointer body, however many mood transitions there have been.
C13_WorldHoldsCurrentBodies ==
    physics.ready => physics.world = Len(physics.bodies) + 1

\* C14: after changeState(s), getState() returns s; changeState with the mood
\* that is already current leaves the current mood, the previous mood and
\* isTransitioning as they were.
C14_ChangeStateThenGetState ==
    unit.fn = "changeState" =>
        /\ unit.got = unit.arg
        /\ unit.arg = unit.before.currentState => unit.after = unit.before
        /\ unit.arg # unit.before.currentState =>
             unit.after.previousState = unit.before.currentState

C14_Witness ==
    /\ unit.fn = "changeState"
    /\ unit.arg = unit.before.currentState
    /\ unit.before.previousState # "null"
    /\ ~unit.before.isTransitioning
    /\ unit.got = unit.arg

\* C15: getTexture on a registered state, with any integer frameIndex, does
\* not throw, and returns null or the cached texture of a frame of that
\* state's sequence.
C15_GetTextureNeverThrows ==
    (tsm.lastGet.called /\ tsm.lastGet.registered) =>
        /\ ~tsm.lastGet.res.threw
        /\ \/ tsm.lastGet.res.texture = "null"
           \/ \E k \in 1 .. Len(tsm.sequences[tsm.lastGet.state]) :
                tsm.lastGet.res.texture = tsm.sequences[tsm.lastGet.state][k]

\* C16: the promise of a loadTextureSequence call is resolved only when the
\* onLoad callback of every frame of the call has run, each having stored its
\* texture in the cache; unless dispose() cleared the cache since, every url
\* of the call is then in the cache.
C16_ResolvedOnlyWhenAllLoaded ==
    \A l \in 1 .. Len(tsm.loads) :
        tsm.loads[l].resolved =>
            /\ tsm.loads[l].done = 1 .. Len(tsm.loads[l].urls)
            /\ ~tsm.loads[l].disposed =>
                 \A k \in 1 .. Len(tsm.loads[l].urls) :
                     tsm.loads[l].urls[k] \in tsm.textureCache

C16_Witness ==
    \E l \in 1 .. Len(tsm.loads) :
        /\ tsm.loads[l].resolved
        /\ Len(tsm.loads[l].urls) = MaxFrames
        /\ ~tsm.loads[l].disposed

\* C17 (as stated): the position a step leaves is the one integrated after
\* all five forces, the orbital and the state-specific force included.
C17_ForcesBeforeIntegration ==
    unit.fn = "updateMetaNodes" =>
        \A k \in NonCore(unit.before) :
            unit.res.nodes[k]
              = UpdateNodeForcesFirst(unit.before[k], unit.beforeVels[k],
                                      STATE_MODULATIONS(unit.state), unit.state, k - 1,
                                      Len(unit.before), unit.t, Mouse3D(unit.mouse),
                                      unit.r).pos

\* the position and the velocity after the first three forces, integration,
\* damping and bounce
Moved(k) ==
    Bounce(VAdd(unit.before[k],
                ThreeForces(unit.before[k], unit.beforeVels[k],
                            STATE_MODULATIONS(unit.state), Mouse3D(unit.mouse), unit.r)),
           VScale(ThreeForces(unit.before[k], unit.beforeVels[k],
                              STATE_MODULATIONS(unit.state), Mouse3D(unit.mouse), unit.r),
                  damping),
           STATE_MODULATIONS(unit.state))

\* C17: a step runs turbulence, center attraction, pointer attraction,
\* integration, damping, boundary reflection, and only then the orbital and
\* the state-specific force, both taken at the new position: they change the
\* velocity the step leaves, not the position it leaves, which is the same
\* whichever state-specific force is selected.
C17_ForcesAfterIntegration ==
    unit.fn = "updateMetaNodes" =>
        \A k \in NonCore(unit.before) :
            /\ unit.res.nodes[k] = Moved(k).pos
            /\ unit.res.nodes[k] = unit.other.nodes[k]
            /\ unit.res.vels[k]
                 = VAdd(VAdd(Moved(k).vel, OrbitForce(unit.res.nodes[k])),
                        StateForce(unit.state, STATE_MODULATIONS(unit.state),
                                   unit.res.nodes[k], k - 1, Len(unit.before), unit.t))

\* a step whose two state-specific forces differ: the velocities differ, the
\* positions do not
C17_Witness ==
    /\ unit.fn = "updateMetaNodes"
    /\ \E k \in NonCore(unit.before) :
         /\ unit.res.vels[k] # unit.other.vels[k]
         /\ unit.res.nodes[k] = unit.other.nodes[k]
         /\ unit.res.nodes[k] # unit.before[k]

\* the wobble amplitude, 0.02
WobbleAmplitude == MulS(SCALE, 200)

\* C18: the core stays where the reset put it until the first step, and after
\* every step it is where the wobble puts it at that step's time, each
\* coordinate within 0.02, whatever impulses its velocity has received.
C18_CoreFollowsWobbleOnly ==
    /\ ~lastFrame.ran => metaNodes[1] = ZeroVec
    /\ lastFrame.ran =>
         /\ metaNodes[1] = CoreWobble(timeRef)
         /\ \A c \in 1 .. 3 : Abs(metaNodes[1][c]) <= WobbleAmplitude

\* a step has run after a mood impulse and the turn-on impulse changed the
\* core's velocity
C18_Witness ==
    /\ lastFrame.ran
    /\ lastFrame.changes > 0
    /\ turnOnPending = 0
    /\ metaVel[1] # ZeroVec
    /\ metaNodes[1] = CoreWobble(timeRef)

\* C19: a step with no active pointer adds no pointer-attraction term, and a
\* step with an active pointer adds it only to the nodes closer to the
\* pointer's projected point than the activation radius.
C19_NoPointerNoAttraction ==
    lastFrame.ran =>
        /\ ~lastFrame.active => lastFrame.attracted = {}
        /\ lastFrame.active => lastFrame.attracted \subseteq lastFrame.near

\* the positions in a sequence of calls of the calls of one kind
CallsOf(calls, op) == { k \in 1 .. Len(calls) : calls[k].op = op }

\* C20: a field update calls reset() first and once, then addBall once per
\* node of the list in the list's order, then at most one pointer ball, then
\* update() last and once.
C20_ResetBallsUpdate ==
    (unit.fn \in { "updateMetaballs", "physicsUpdateMetaballs" }) =>
        /\ CallsOf(unit.calls, "reset") = { 1 }
        /\ CallsOf(unit.calls, "update") = { Len(unit.calls) }
        /\ \A k \in 1 .. Len(unit.nodes) :
             unit.calls[k + 1].op = "addBall" /\ unit.calls[k + 1].from = "node"
        /\ BallsFrom(unit.calls, "node") = { k + 1 : k \in 1 .. Len(unit.nodes) }
        /\ Cardinality(BallsFrom(unit.calls, "pointer")) <= 1
        /\ BallsFrom(unit.calls, "pointer") \subseteq { Len(unit.nodes) + 2 }
        /\ unit.fn = "updateMetaballs" =>
             \A k \in 1 .. Len(unit.nodes) : unit.calls[k + 1].pos = unit.nodes[k]
        /\ unit.fn = "physicsUpdateMetaballs" =>
             /\ BallsFrom(unit.calls, "pointer") = {}
             /\ \A k \in 1 .. Len(unit.nodes) :
                  unit.calls[k + 1].pos = BodyUpdate(unit.nodes[k])

C20_Witness ==
    /\ unit.fn = "updateMetaballs"
    /\ Len(unit.nodes) >= 2
    /\ BallsFrom(unit.calls, "pointer") = { Len(unit.nodes) + 2 }
    /\ Len(unit.calls) = Len(unit.nodes) + 3

\* C21: from each committed mood change on, isTransitioning is true for 500 ms
\* and false after them, also when the change came during a running transition
C21_TransitionLastsFromEachChange ==
    anim.since # NoTimer =>
        /\ (anim.since < transitionMs => anim.isTransitioning)
        /\ (anim.since > transitionMs => ~anim.isTransitioning)

\* C22: once no timer and no tween is pending and the orb is turned on, the
\* isolation is the level of the current mood
C22_IsolationOfMoodWhenQuiet ==
    (FxQuiet /\ fx.isVisible) => fx.isolation = IsolationLevel(fx.mood)

\* C24: once no timer and no tween is pending, the visible flag of the
\* rendered object equals the isVisible state of the component
C24_VisibleFlagWhenQuiet ==
    FxQuiet => fx.visible = fx.isVisible

\* C23: once no transition tween is pending, the shape of the current mood is
\* visible and the shapes of the other moods are hidden
C23_OnlyCurrentShapeWhenQuiet ==
    shapes.tweens = << >> =>
        \A s \in States : shapes.visible[s] <=> (s = shapes.currentState)

\* C25: at most one frame loop runs while the orb is mounted, and none after
\* the unmount
C25_AtMostOneFrameLoop ==
    /\ Cardinality(scene.loops) <= 1
    /\ ~scene.mounted => scene.loops = {}

\* C27: a frame animates the shapes exactly when the environment of the
\* current scene has finished loading
C27_AnimatesIffSceneLoaded ==
    scene.lastFrame.ran =>
        (scene.lastFrame.animated <=> scene.lastFrame.sceneLoaded)

\* C26: a frame rendered while the pointer is inside the container gets the
\* latest normalized pointer position, a frame rendered while it is outside
\* gets no pointer data
C26_FrameGetsPointerIffInside ==
    pointer.lastFrame.ran =>
        pointer.lastFrame.mouseData =
            (IF pointer.lastFrame.inside THEN pointer.lastFrame.latest
             ELSE NoMouseData)

\* C28: once the interface has mounted and the orb's environment has loaded,
\* the interface's isVisible equals the orb's isVisible()
C28_InterfaceShowsOrbeVisibility ==
    (agent.mounted /\ agent.orbe.environmentLoaded) =>
        agent.isVisible = OrbeIsVisible(agent.orbe)

\* the promise of the l-th loadTextureSequence call has resolved
Settled(l) == l <= Len(tsm.loads) /\ tsm.loads[l].resolved

\* C29: from dispose() until the next loadTextureSequence call the texture
\* cache and the sequence table are empty
C29_EmptyAfterDispose ==
    (tsm.loads # << >> /\ \A l \in DOMAIN tsm.loads : tsm.loads[l].disposed) =>
        (tsm.textureCache = {} /\ tsm.registered = {})

\* C30: every promise returned by loadTextureSequence eventually settles (the
\* code has no path that rejects, so settling is resolving)
C30_EveryLoadSettles ==
    \A l \in 1 .. MaxLoads : [](Len(tsm.loads) >= l => <>Settled(l))

====
